---- MODULE Spec2Model ----
(***************************************************************************)
(* Model of the playground-map enrichment flow and of the useDebounce hook. *)
(*                                                                         *)
(*   Spec          fetchPerplexityInsights / fetchPerplexityInsightsWithCache *)
(*                 invocations running concurrently against one cache.      *)
(*   SpecParse     the extraction of the JSON text from a response content  *)
(*                 (the two regular expressions) followed by JSON.parse.    *)
(*   SpecDebounce  the debounced function returned by useDebounce.          *)
(*                                                                         *)
(* A response content is a sequence of tokens:                              *)
(*   "T"  three backticks            "J"  the word json (any letter case)   *)
(*   "s"  one whitespace character   "{" "}"  braces                        *)
(*   "x"  any other text                                                    *)
(*   "A" "N" "P"  the four key/value pairs of an object body: all four      *)
(*        populated, all four null, only name populated (plain text when    *)
(*        they stand outside an object).                                    *)
(***************************************************************************)
EXTENDS Integers, Sequences, FiniteSets, TLC

\* ---------------------------------------------------------------- bounds
MaxLen == 6
MaxCalls == 3
MaxTime == 4
MaxDelay == 2

\* ---------------------------------------------------------------- values
Procs == {1, 2}
Addrs == {"addr1", "addr2"}
Names == {"noname", "name1"}
Citations == {"c1"}
Primary == {"name", "description", "features", "parking"}

Null == [kind |-> "null"]

MkObject(n, d, f, p) ==
    [name |-> n, description |-> d, features |-> f, parking |-> p]

\* the object a body token stands for ("missing": the key is not there)
BodyObject(tok) ==
    CASE tok = "A" -> MkObject("value", "value", "value", "value")
      [] tok = "N" -> MkObject("null", "null", "null", "null")
      [] tok = "P" -> MkObject("value", "null", "null", "null")
      [] OTHER     -> MkObject("missing", "missing", "missing", "missing")

Bodies == {"A", "N", "P"}

\* ------------------------------------------------- extraction and parsing
IsWs(t) == t = "s"

\* first index >= i of s that is not whitespace (Len(s)+1 when none): \s* greedy
RECURSIVE SkipWs(_, _)
SkipWs(s, i) == IF i <= Len(s) /\ IsWs(s[i]) THEN SkipWs(s, i + 1) ELSE i

\* whether s, read from k, is \s* followed by three backticks
ClosesAt(s, k) == LET e == SkipWs(s, k) IN e <= Len(s) /\ s[e] = "T"

\* the lazy group ([\s\S]*?): the shortest extension from b after which \s*``` matches
RECURSIVE LazyEnd(_, _, _)
LazyEnd(s, b, k) ==
    IF k > Len(s) + 1 THEN 0
    ELSE IF ClosesAt(s, k) THEN k
    ELSE LazyEnd(s, b, k + 1)

\* contentBlock.match(/```json\s*([\s\S]*?)\s*```/i) tried from position i on:
\* [found, group] with group the text of capture group 1
RECURSIVE FenceMatchFrom(_, _)
FenceMatchFrom(s, i) ==
    IF i + 1 > Len(s) THEN [found |-> FALSE, group |-> <<>>]
    ELSE IF s[i] = "T" /\ s[i + 1] = "J"
         THEN LET b == SkipWs(s, i + 2)
                  k == LazyEnd(s, b, b)
              IN  IF k # 0 THEN [found |-> TRUE, group |-> SubSeq(s, b, k - 1)]
                  ELSE FenceMatchFrom(s, i + 1)
         ELSE FenceMatchFrom(s, i + 1)

FenceMatch(s) == FenceMatchFrom(s, 1)

\* first index >= i holding token t (0 when none)
RECURSIVE IndexFrom(_, _, _)
IndexFrom(s, t, i) ==
    IF i > Len(s) THEN 0 ELSE IF s[i] = t THEN i ELSE IndexFrom(s, t, i + 1)

\* the greedy [\s\S]*} after an opening brace at i: the engine takes all the
\* text and gives characters back until a closing brace ends the match
RECURSIVE GreedyEnd(_, _, _)
GreedyEnd(s, i, k) ==
    IF k <= i THEN 0 ELSE IF s[k] = "}" THEN k ELSE GreedyEnd(s, i, k - 1)

\* faulty variant, the lazy [\s\S]*?} : the first closing brace after the opening one
LazyBraceEnd(s, i, k) == IndexFrom(s, "}", i + 1)

\* the end of the match of {[\s\S]*} whose opening brace is at i (k: the end
\* of the text)
BraceEnd(s, i, k) == GreedyEnd(s, i, k)

\* contentBlock.match(/({[\s\S]*})/) tried from position i on
RECURSIVE BraceMatchFrom(_, _)
BraceMatchFrom(s, i) ==
    LET o == IndexFrom(s, "{", i)
    IN  IF o = 0 THEN [found |-> FALSE, group |-> <<>>]
        ELSE LET e == BraceEnd(s, o, Len(s))
             IN  IF e # 0 THEN [found |-> TRUE, group |-> SubSeq(s, o, e)]
                 ELSE BraceMatchFrom(s, o + 1)

BraceMatch(s) == BraceMatchFrom(s, 1)

\* jsonMatch = fenced || braces ; content = jsonMatch ? jsonMatch[1] : ""
JsonMatch(s) == IF FenceMatch(s).found THEN FenceMatch(s) ELSE BraceMatch(s)

ExtractContent(s) == IF JsonMatch(s).found THEN JsonMatch(s).group ELSE <<>>

\* JSON.parse on the token text: whitespace between tokens is insignificant;
\* the text parses when it is one object, empty or with one body
JSONParse(s) ==
    LET t == SelectSeq(s, LAMBDA c : ~IsWs(c))
    IN  IF t = <<"{", "}">>
        THEN [ok |-> TRUE, obj |-> BodyObject("")]
        ELSE IF Len(t) = 3 /\ t[1] = "{" /\ t[2] \in Bodies /\ t[3] = "}"
        THEN [ok |-> TRUE, obj |-> BodyObject(t[2])]
        ELSE [ok |-> FALSE, obj |-> BodyObject("")]

\* faulty variant: the envelope's citations and images are dropped
MakeInsightsNoEnvelope(obj, cit) ==
    [kind |-> "record", name |-> obj.name, description |-> obj.description,
     features |-> obj.features, parking |-> obj.parking,
     sources |-> "none", images |-> "none"]

\* { ...JSON.parse(content), sources: data.citations, images: data.images }
MakeInsights(obj, cit) ==
    [kind |-> "record", name |-> obj.name, description |-> obj.description,
     features |-> obj.features, parking |-> obj.parking,
     sources |-> cit, images |-> "images"]

\* ------------------------------------------------------------ enrichment
VARIABLES
    apiKey,          \* process.env.PERPLEXITY_API_KEY is set
    cache,           \* the cache backend: address -> record or Null
    pc,              \* where each invocation stands
    kind,            \* "wrapper" (fetchPerplexityInsightsWithCache) or "fetcher"
    address, name,   \* the arguments of the invocation
    signal,          \* "none" (no signal passed), "live", "aborted"
    cachedInsights,  \* what the cache lookup gave (Unset before it)
    freshInsights,   \* what the Fetcher gave the wrapper (Unset before it)
    outcome,         \* "pending", "returned", "threw"
    result,          \* the value returned, or [kind |-> "error", ...]
    netCalls,        \* number of calls of fetch() made by the invocation
    cacheReads,      \* number of cache lookups made by the invocation
    saveCalls,       \* the calls of savePerplexityInsightsToCache it made
    lastWriter,      \* per address, the invocation whose write took effect last
    abortedAt,       \* when the signal was aborted: "never", "call" (before
                     \* the call), "lookup", "fetch", "save" (while awaiting)
    httpStatus,      \* "none", "rejected", "notok", "ok": how fetch() settled
    body             \* the content of the response received (NoBody before)

VARIABLES
    content,         \* SpecParse: data.choices[0].message.content
    ppc,             \* SpecParse: "match", "parse", "done"
    extracted,       \* SpecParse: the text handed to JSON.parse
    parsed           \* SpecParse: [ok, obj] of JSON.parse, or Unparsed

VARIABLES
    delay,           \* SpecDebounce: the delay argument of useDebounce
    timerRef,        \* SpecDebounce: timerRef.current (0 is null)
    pending,         \* SpecDebounce: timers set and neither fired nor cleared
    now,             \* SpecDebounce: the clock
    calls,           \* SpecDebounce: the calls made, [args, at, timer]
    invoked,         \* SpecDebounce: the invocations of fn, [args, at, timer]
    mounted,         \* SpecDebounce: the component is mounted
    clearedAtUnmount \* SpecDebounce: the timers the unmount cleanup cleared

enrichVars ==
    <<apiKey, cache, pc, kind, address, name, signal, cachedInsights,
      freshInsights, outcome, result, netCalls, cacheReads, saveCalls,
      lastWriter, abortedAt, httpStatus, body>>
parseVars == <<content, ppc, extracted, parsed>>
debounceVars ==
    <<delay, timerRef, pending, now, calls, invoked, mounted, clearedAtUnmount>>
vars == <<enrichVars, parseVars, debounceVars>>

Unset == [kind |-> "unset"]
Err(e) == [kind |-> "error", error |-> e]
NoBody == <<"none">>
Unparsed == [ok |-> FALSE, obj |-> BodyObject(""), ran |-> FALSE]

\* the content strings the API answers with in Spec
FencedFound == <<"T", "J", "s", "{", "A", "}", "s", "T">>
BareNotFound == <<"x", "s", "{", "N", "}">>
PartialObject == <<"{", "P", "}">>
NoJson == <<"x">>
ResponseContents == {FencedFound, BareNotFound, PartialObject, NoJson}

\* what an earlier invocation may have left in the cache
CachedRecords == {MakeInsights(BodyObject("A"), "c0")}

\* the cache backend's two operations
CacheLookup(c, a) == c[a]
CacheStore(c, a, r) == [c EXCEPT ![a] = r]

InitParseIdle ==
    /\ content = <<>> /\ ppc = "done" /\ extracted = <<>> /\ parsed = Unparsed
InitDebounceIdle ==
    /\ delay = 0 /\ timerRef = 0 /\ pending = {} /\ now = 0 /\ calls = <<>>
    /\ invoked = <<>> /\ mounted = FALSE /\ clearedAtUnmount = {}

InitEnrich ==
    /\ apiKey \in BOOLEAN
    /\ cache \in [Addrs -> CachedRecords \cup {Null}]
    /\ pc = [p \in Procs |-> "idle"]
    /\ kind = [p \in Procs |-> "wrapper"]
    /\ address = [p \in Procs |-> "addr1"]
    /\ name = [p \in Procs |-> "noname"]
    /\ signal = [p \in Procs |-> "none"]
    /\ cachedInsights = [p \in Procs |-> Unset]
    /\ freshInsights = [p \in Procs |-> Unset]
    /\ outcome = [p \in Procs |-> "pending"]
    /\ result = [p \in Procs |-> Unset]
    /\ netCalls = [p \in Procs |-> 0]
    /\ cacheReads = [p \in Procs |-> 0]
    /\ saveCalls = [p \in Procs |-> <<>>]
    /\ lastWriter = [a \in Addrs |-> 0]
    /\ abortedAt = [p \in Procs |-> "never"]
    /\ httpStatus = [p \in Procs |-> "none"]
    /\ body = [p \in Procs |-> NoBody]

InitEnrichIdle ==
    /\ InitEnrich
    /\ apiKey = TRUE
    /\ cache = [a \in Addrs |-> Null]

Init == InitEnrich /\ InitParseIdle /\ InitDebounceIdle

\* the invocation ends: return v / throw e
Finish(p, how, v) ==
    /\ pc' = [pc EXCEPT ![p] = "done"]
    /\ outcome' = [outcome EXCEPT ![p] = how]
    /\ result' = [result EXCEPT ![p] = v]

\* faulty variant: the API key is checked before the signal
FetcherEntryKeyFirst(sig, key) ==
    IF ~key THEN "config"
    ELSE IF sig = "aborted" THEN "null"
    ELSE "fetch"

\* faulty variant: the API key is not checked
FetcherEntryNoKeyCheck(sig, key) ==
    IF sig = "aborted" THEN "null" ELSE "fetch"

\* fetchPerplexityInsights up to its first await (lines 17-84): "null"
\* (aborted), "config" (no API key) or "fetch" (the request is sent)
FetcherEntry(sig, key) ==
    IF sig = "aborted" THEN "null"
    ELSE IF ~key THEN "config"
    ELSE "fetch"

\* the caller starts an invocation
Call(p) ==
    /\ pc[p] = "idle"
    /\ \E k \in {"wrapper", "fetcher"}, a \in Addrs, n \in Names,
          sg \in {"none", "live", "aborted"} :
        /\ kind' = [kind EXCEPT ![p] = k]
        /\ address' = [address EXCEPT ![p] = a]
        /\ name' = [name EXCEPT ![p] = n]
        /\ signal' = [signal EXCEPT ![p] = sg]
        /\ abortedAt' =
             [abortedAt EXCEPT ![p] = IF sg = "aborted" THEN "call" ELSE "never"]
        /\ IF k = "wrapper"
           THEN \* lines 115-121
                /\ IF sg = "aborted"
                   THEN Finish(p, "returned", Null)
                   ELSE /\ pc' = [pc EXCEPT ![p] = "awaitCache"]
                        /\ UNCHANGED <<outcome, result>>
                /\ UNCHANGED netCalls
           ELSE \* lines 17-84
                LET e == FetcherEntry(sg, apiKey)
                IN  /\ IF e = "null" THEN Finish(p, "returned", Null)
                       ELSE IF e = "config" THEN Finish(p, "threw", Err("config"))
                       ELSE /\ pc' = [pc EXCEPT ![p] = "awaitFetch"]
                            /\ UNCHANGED <<outcome, result>>
                    /\ netCalls' =
                         [netCalls EXCEPT ![p] = IF e = "fetch" THEN @ + 1 ELSE @]
    /\ UNCHANGED <<apiKey, cache, cachedInsights, freshInsights, cacheReads,
                   saveCalls, lastWriter, httpStatus, body, parseVars,
                   debounceVars>>

\* the caller triggers the signal it passed
Abort(p) ==
    /\ pc[p] \notin {"idle", "done"}
    /\ signal[p] = "live"
    /\ signal' = [signal EXCEPT ![p] = "aborted"]
    /\ abortedAt' =
         [abortedAt EXCEPT
            ![p] = CASE pc[p] = "awaitCache" -> "lookup"
                     [] pc[p] \in {"awaitFetch", "awaitBody", "awaitFetcher"}
                          -> "fetch"
                     [] OTHER -> "save"]
    /\ UNCHANGED <<apiKey, cache, pc, kind, address, name, cachedInsights,
                   freshInsights, outcome, result, netCalls, cacheReads,
                   saveCalls, lastWriter, httpStatus, body, parseVars,
                   debounceVars>>

\* faulty variant: the cached record is never used
NeverHit(c) == FALSE
\* line 122: if (cachedInsights)
IsHit(c) == c # Null

\* the cache lookup of line 119 completes; on a miss the Fetcher is entered
\* (lines 17-84 run without suspension)
CacheResolve(p) ==
    /\ pc[p] = "awaitCache"
    /\ cacheReads' = [cacheReads EXCEPT ![p] = @ + 1]
    /\ \/ \* the cache backend fails: the failure propagates
          /\ Finish(p, "threw", Err("cache"))
          /\ UNCHANGED <<cachedInsights, freshInsights, netCalls>>
       \/ LET c == CacheLookup(cache, address[p])
              e == FetcherEntry(signal[p], apiKey)
          IN  /\ cachedInsights' = [cachedInsights EXCEPT ![p] = c]
              /\ IF IsHit(c)
                 THEN /\ Finish(p, "returned", c)
                      /\ UNCHANGED <<freshInsights, netCalls>>
                 ELSE IF e = "null"
                 THEN /\ pc' = [pc EXCEPT ![p] = "awaitFetcher"]
                      /\ freshInsights' = [freshInsights EXCEPT ![p] = Null]
                      /\ UNCHANGED <<outcome, result, netCalls>>
                 ELSE IF e = "config"
                 THEN /\ Finish(p, "threw", Err("config"))
                      /\ UNCHANGED <<freshInsights, netCalls>>
                 ELSE /\ pc' = [pc EXCEPT ![p] = "awaitFetch"]
                      /\ netCalls' = [netCalls EXCEPT ![p] = @ + 1]
                      /\ UNCHANGED <<outcome, result, freshInsights>>
    /\ UNCHANGED <<apiKey, cache, kind, address, name, signal, saveCalls,
                   lastWriter, abortedAt, httpStatus, body,
                   parseVars, debounceVars>>

\* faulty variant: the status is not looked at
AnyStatusOk(st) == TRUE
\* line 86: response.ok
ResponseOk(st) == st = "ok"

\* await fetch(...) of line 76 settles: rejected by the transport (network
\* failure, or the abort it honours), a non-success status, or a success status
FetchResolve(p) ==
    /\ pc[p] = "awaitFetch"
    /\ \/ /\ Finish(p, "threw", Err("transport"))
          /\ httpStatus' = [httpStatus EXCEPT ![p] = "rejected"]
       \/ \E st \in {"notok", "ok"} :
            /\ httpStatus' = [httpStatus EXCEPT ![p] = st]
            /\ IF ResponseOk(st)
               THEN /\ pc' = [pc EXCEPT ![p] = "awaitBody"]
                    /\ UNCHANGED <<outcome, result>>
               ELSE Finish(p, "threw", Err("upstream"))
    /\ UNCHANGED <<apiKey, cache, kind, address, name, signal, cachedInsights,
                   freshInsights, netCalls, cacheReads, saveCalls, lastWriter,
                   abortedAt, body, parseVars, debounceVars>>

\* faulty variant: a content that does not parse gives an empty record
FetcherResultWithFallback(c, cit) ==
    LET j == JSONParse(ExtractContent(c))
    IN  MakeInsights(j.obj, cit)

\* what lines 92-102 make of the content and the citations of the envelope:
\* the record, or the parse error of JSON.parse
FetcherResult(c, cit) ==
    LET j == JSONParse(ExtractContent(c))
    IN  IF j.ok THEN MakeInsights(j.obj, cit) ELSE Err("parse")

\* await response.json() of line 90 settles, then lines 92-102
BodyResolve(p) ==
    /\ pc[p] = "awaitBody"
    /\ \/ /\ Finish(p, "threw", Err("body"))
          /\ UNCHANGED <<freshInsights, body>>
       \/ \E c \in ResponseContents, cit \in Citations :
            LET r == FetcherResult(c, cit)
            IN  /\ body' = [body EXCEPT ![p] = c]
                /\ IF r.kind = "error"
                   THEN /\ Finish(p, "threw", r)
                        /\ UNCHANGED freshInsights
                   ELSE IF kind[p] = "fetcher"
                   THEN /\ Finish(p, "returned", r)
                        /\ UNCHANGED freshInsights
                   ELSE /\ pc' = [pc EXCEPT ![p] = "awaitFetcher"]
                        /\ freshInsights' = [freshInsights EXCEPT ![p] = r]
                        /\ UNCHANGED <<outcome, result>>
    /\ UNCHANGED <<apiKey, cache, kind, address, name, signal, cachedInsights,
                   netCalls, cacheReads, saveCalls, lastWriter, abortedAt, httpStatus, parseVars, debounceVars>>

\* faulty variant: the signal is not looked at after the fetch
GivesUpIgnoringSignal(sig, fresh) == fresh = Null
\* line 132: whether the wrapper gives up after the Fetcher returned
GivesUp(sig, fresh) == sig = "aborted" \/ fresh = Null

\* faulty variant: the record is saved under another address
SaveArgsOtherAddress(a, fresh) ==
    [address |-> CHOOSE b \in Addrs : b # a, insights |-> fresh]
\* line 136: the arguments of savePerplexityInsightsToCache
SaveArgs(a, fresh) == [address |-> a, insights |-> fresh]

\* the wrapper resumes after await fetchPerplexityInsights: lines 132-136
AfterFetch(p) ==
    /\ pc[p] = "awaitFetcher"
    /\ IF GivesUp(signal[p], freshInsights[p])
       THEN /\ Finish(p, "returned", Null)
            /\ UNCHANGED saveCalls
       ELSE /\ pc' = [pc EXCEPT ![p] = "awaitSave"]
            /\ saveCalls' = [saveCalls EXCEPT
                              ![p] = Append(@, SaveArgs(address[p], freshInsights[p]))]
            /\ UNCHANGED <<outcome, result>>
    /\ UNCHANGED <<apiKey, cache, kind, address, name, signal, cachedInsights,
                   freshInsights, netCalls, cacheReads, lastWriter,
                   abortedAt, httpStatus, body, parseVars,
                   debounceVars>>

\* the cache backend carries out the save (or fails)
SaveResolve(p) ==
    /\ pc[p] = "awaitSave"
    /\ LET sv == saveCalls[p][Len(saveCalls[p])]
       IN  \/ /\ Finish(p, "threw", Err("cache"))
              /\ UNCHANGED <<cache, lastWriter>>
           \/ /\ cache' = CacheStore(cache, sv.address, sv.insights)
              /\ lastWriter' = [lastWriter EXCEPT ![sv.address] = p]
              /\ pc' = [pc EXCEPT ![p] = "saved"]
              /\ UNCHANGED <<outcome, result>>
    /\ UNCHANGED <<apiKey, kind, address, name, signal, cachedInsights,
                   freshInsights, netCalls, cacheReads, saveCalls,
                   abortedAt, httpStatus, body, parseVars,
                   debounceVars>>

\* faulty variant: the cache entry is returned instead of freshInsights
ReturnedValueCached(p) == CacheLookup(cache, address[p])
\* line 138: return freshInsights
ReturnedValue(p) == freshInsights[p]

ReturnFresh(p) ==
    /\ pc[p] = "saved"
    /\ Finish(p, "returned", ReturnedValue(p))
    /\ UNCHANGED <<apiKey, cache, kind, address, name, signal, cachedInsights,
                   freshInsights, netCalls, cacheReads, saveCalls, lastWriter,
                   abortedAt, httpStatus, body, parseVars,
                   debounceVars>>

Next ==
    \E p \in Procs :
        \/ Call(p)
        \/ Abort(p)
        \/ CacheResolve(p)
        \/ FetchResolve(p)
        \/ BodyResolve(p)
        \/ AfterFetch(p)
        \/ SaveResolve(p)
        \/ ReturnFresh(p)

Spec == Init /\ [][Next]_vars

\* ------------------------------------------------- extraction, on its own
ParseTokens == {"T", "J", "s", "{", "}", "N"}
Contents == UNION {[1..n -> ParseTokens] : n \in 0..MaxLen}

InitParse ==
    /\ content \in Contents
    /\ ppc = "match"
    /\ extracted = <<>>
    /\ parsed = Unparsed
    /\ InitEnrichIdle
    /\ InitDebounceIdle

\* lines 92-96
Match ==
    /\ ppc = "match"
    /\ extracted' = ExtractContent(content)
    /\ ppc' = "parse"
    /\ UNCHANGED <<content, parsed, enrichVars, debounceVars>>

\* line 99
Parse ==
    /\ ppc = "parse"
    /\ parsed' = [ok |-> JSONParse(extracted).ok, obj |-> JSONParse(extracted).obj,
                  ran |-> TRUE]
    /\ ppc' = "done"
    /\ UNCHANGED <<content, extracted, enrichVars, debounceVars>>

NextParse == Match \/ Parse

SpecParse == InitParse /\ [][NextParse]_vars

\* --------------------------------------------------------------- useDebounce
Args == {"a1", "a2"}

InitDebounce ==
    /\ delay \in 0..MaxDelay
    /\ timerRef = 0
    /\ pending = {}
    /\ now = 0
    /\ calls = <<>>
    /\ invoked = <<>>
    /\ mounted = TRUE
    /\ clearedAtUnmount = {}
    /\ InitEnrichIdle
    /\ InitParseIdle

\* clearTimeout(id)
ClearTimeout(timers, id) == {t \in timers : t.id # id}

\* faulty variant: the previous timer is not cleared
KeepPrevious(ref, timers) == timers
\* lines 25-27: the timers left pending once the call has cancelled its predecessor
CancelPrevious(ref, timers) == IF ref # 0 THEN ClearTimeout(timers, ref) ELSE timers

\* the debounced function is called with args a: lines 24-32
DebouncedCall(a) ==
    /\ Len(calls) < MaxCalls
    /\ LET id == Len(calls) + 1
       IN  /\ pending' = CancelPrevious(timerRef, pending)
                           \cup {[id |-> id, args |-> a, due |-> now + delay]}
           /\ timerRef' = id
           /\ calls' = Append(calls, [args |-> a, at |-> now, timer |-> id])
    /\ UNCHANGED <<delay, now, invoked, mounted, clearedAtUnmount, enrichVars,
                   parseVars>>

\* time passes
Tick ==
    /\ now < MaxTime
    /\ now' = now + 1
    /\ UNCHANGED <<delay, timerRef, pending, calls, invoked, mounted,
                   clearedAtUnmount, enrichVars, parseVars>>

\* a pending timer whose delay has elapsed runs its callback: line 30
TimerFires(t) ==
    /\ t \in pending
    /\ t.due <= now
    /\ pending' = pending \ {t}
    /\ invoked' = Append(invoked, [args |-> t.args, at |-> now, timer |-> t.id])
    /\ UNCHANGED <<delay, timerRef, now, calls, mounted, clearedAtUnmount,
                   enrichVars, parseVars>>

\* the component unmounts: the effect's cleanup, lines 15-20
Unmount ==
    /\ mounted
    /\ mounted' = FALSE
    /\ IF timerRef # 0
       THEN /\ pending' = ClearTimeout(pending, timerRef)
            /\ clearedAtUnmount' = {t.id : t \in {u \in pending : u.id = timerRef}}
            /\ timerRef' = 0
       ELSE UNCHANGED <<pending, clearedAtUnmount, timerRef>>
    /\ UNCHANGED <<delay, now, calls, invoked, enrichVars, parseVars>>

NextDebounce ==
    \/ \E a \in Args : DebouncedCall(a)
    \/ Tick
    \/ \E t \in pending : TimerFires(t)
    \/ Unmount

SpecDebounce == InitDebounce /\ [][NextDebounce]_vars

\* ================================================================ claims
IsRecord(r) == r.kind = "record"
CalledAborted(p) == abortedAt[p] = "call"
AbortedInLookup(p) == abortedAt[p] = "lookup"
AbortedInFetch(p) == abortedAt[p] = "fetch"
Wrapper(p) == pc[p] # "idle" /\ kind[p] = "wrapper"
Fetcher(p) == pc[p] # "idle" /\ kind[p] = "fetcher"
Done(p) == pc[p] = "done"
Returned(p, v) == Done(p) /\ outcome[p] = "returned" /\ result[p] = v
Threw(p, e) == Done(p) /\ outcome[p] = "threw" /\ result[p] = Err(e)
NoWriteBy(p) == saveCalls[p] = <<>> /\ \A a \in Addrs : lastWriter[a] # p
NotFoundRecord == MakeInsights(BodyObject("N"), "c1")
\* the record the Fetcher makes of a response, stated on the response itself
RecordOf(c) ==
    CASE c = FencedFound   -> MakeInsights(BodyObject("A"), "c1")
      [] c = BareNotFound  -> NotFoundRecord
      [] c = PartialObject -> MakeInsights(BodyObject("P"), "c1")
      [] OTHER             -> Null

\* C1: a wrapper invocation that missed the cache, got a record from the
\* Fetcher and found its signal not aborted calls savePerplexityInsightsToCache
\* once, with its own address and exactly that record, before it returns; the
\* write takes effect before the return and the value returned is the value
\* written.
C1_WriteBeforeReturn ==
    \A p \in Procs :
        (Wrapper(p) /\ cachedInsights[p] = Null /\ body[p] # NoBody
            /\ RecordOf(body[p]) # Null)
        =>
        /\ (pc[p] # "awaitFetcher" /\ signal[p] # "aborted")
             => saveCalls[p] = <<[address |-> address[p],
                                  insights |-> RecordOf(body[p])]>>
        /\ pc[p] = "saved" => lastWriter[address[p]] # 0
        /\ (Done(p) /\ outcome[p] = "returned" /\ result[p] # Null)
             => /\ saveCalls[p] = <<[address |-> address[p],
                                     insights |-> result[p]]>>
                /\ result[p] = RecordOf(body[p])
                /\ lastWriter[address[p]] # 0

\* a miss, a "not found" record fetched, written and returned
C1_Witness ==
    \E p \in Procs :
        /\ Wrapper(p) /\ cachedInsights[p] = Null
        /\ Returned(p, NotFoundRecord)
        /\ cache[address[p]] = NotFoundRecord
        /\ lastWriter[address[p]] = p

\* C2: a wrapper invocation whose cache lookup gave a record returns that
\* record, whatever its name argument, with no network call and no cache write.
C2_HitReturnsCached ==
    \A p \in Procs :
        (Wrapper(p) /\ IsRecord(cachedInsights[p]))
        => /\ Returned(p, cachedInsights[p])
           /\ netCalls[p] = 0
           /\ NoWriteBy(p)

C2_Witness ==
    \E p \in Procs :
        /\ Wrapper(p) /\ name[p] = "name1"
        /\ IsRecord(cachedInsights[p])
        /\ Returned(p, cache[address[p]])

\* C3: a call of either function made with the signal already aborted returns
\* null (also when the API key is missing), with no network call, no cache
\* read and no cache write; so does the Fetcher when the wrapper enters it
\* with the signal aborted.
C3_PreAbortedReturnsNull ==
    \A p \in Procs :
        /\ (pc[p] # "idle" /\ CalledAborted(p))
             => /\ Returned(p, Null)
                /\ netCalls[p] = 0
                /\ cacheReads[p] = 0
                /\ NoWriteBy(p)
        /\ (Wrapper(p) /\ AbortedInLookup(p) /\ cachedInsights[p] = Null)
             => /\ freshInsights[p] = Null
                /\ netCalls[p] = 0
                /\ NoWriteBy(p)
                /\ Done(p) => Returned(p, Null)

C3_Witness ==
    /\ ~apiKey
    /\ \E p, q \in Procs :
        /\ Fetcher(p) /\ CalledAborted(p) /\ Returned(p, Null)
        /\ Wrapper(q) /\ CalledAborted(q) /\ Returned(q, Null)

\* C4: when the Fetcher fails inside a wrapper invocation (a non-success HTTP
\* status, or a content that is not JSON), the wrapper fails with that error,
\* returns nothing and makes no cache write.
C4_FetcherFailurePropagates ==
    \A p \in Procs :
        Wrapper(p) =>
            /\ httpStatus[p] = "notok" => (Threw(p, "upstream") /\ NoWriteBy(p))
            /\ body[p] = NoJson => (Threw(p, "parse") /\ NoWriteBy(p))

C4_Witness ==
    \E p, q \in Procs :
        /\ Wrapper(p) /\ httpStatus[p] = "notok" /\ Threw(p, "upstream")
        /\ Wrapper(q) /\ body[q] = NoJson /\ Threw(q, "parse")
        /\ address[p] = address[q]
        /\ cache[address[p]] = Null

FetcherErrors == {"transport", "upstream", "body", "parse"}

C6_LastWriteWins ==
    \A p, q \in Procs :
        (/\ p # q /\ Wrapper(p) /\ Wrapper(q)
         /\ address[p] = address[q]
         /\ cachedInsights[p] = Null /\ cachedInsights[q] = Null
         /\ Done(p) /\ outcome[p] = "returned" /\ result[p] # Null
         /\ Done(q) /\ outcome[q] = "returned" /\ result[q] # Null)
        => /\ netCalls[p] = 1 /\ netCalls[q] = 1
           /\ Len(saveCalls[p]) = 1 /\ Len(saveCalls[q]) = 1
           /\ lastWriter[address[p]] \in {p, q}
           /\ cache[address[p]] = RecordOf(body[lastWriter[address[p]]])
           /\ result[p] = RecordOf(body[p])
           /\ result[q] = RecordOf(body[q])

\* both missed, both fetched different records, both wrote; the first writer
\* returned its own record although the cache holds the other's
C6_Witness ==
    \E p, q \in Procs :
        /\ p # q /\ Wrapper(p) /\ Wrapper(q) /\ address[p] = address[q]
        /\ cachedInsights[p] = Null /\ cachedInsights[q] = Null
        /\ netCalls[p] = 1 /\ netCalls[q] = 1
        /\ Returned(p, RecordOf(FencedFound))
        /\ Returned(q, NotFoundRecord)
        /\ lastWriter[address[p]] = q
        /\ cache[address[p]] = NotFoundRecord

\* C7: with no API key and the signal not aborted, fetchPerplexityInsights
\* fails with the configuration error before any network call; through the
\* wrapper this happens after the cache miss, and no cache write follows.
C7_MissingKeyFails ==
    \A p \in Procs :
        /\ (Fetcher(p) /\ ~apiKey /\ ~CalledAborted(p))
             => (Threw(p, "config") /\ netCalls[p] = 0)
        /\ (Wrapper(p) /\ ~apiKey /\ cachedInsights[p] = Null
              /\ freshInsights[p] # Null)
             => /\ Threw(p, "config")
                /\ netCalls[p] = 0
                /\ cacheReads[p] = 1
                /\ NoWriteBy(p)

C7_Witness ==
    \E p, q \in Procs :
        /\ Fetcher(p) /\ signal[p] = "live" /\ Threw(p, "config")
        /\ Wrapper(q) /\ cachedInsights[q] = Null /\ Threw(q, "config")
        /\ netCalls[p] = 0 /\ netCalls[q] = 0

AllOrNone(r) ==
    \/ \A f \in Primary : r[f] = "value"
    \/ \A f \in Primary : r[f] = "null"

\* C9: every record fetchPerplexityInsights returns, and every record the
\* wrapper writes to the cache, has its four primary fields all present or all
\* null.
C9_AllOrNone ==
    /\ \A p \in Procs :
        /\ (Done(p) /\ outcome[p] = "returned" /\ IsRecord(result[p]))
             => AllOrNone(result[p])
        /\ IsRecord(freshInsights[p]) => AllOrNone(freshInsights[p])
    /\ \A a \in Addrs : IsRecord(cache[a]) => AllOrNone(cache[a])

\* ---- the extraction, stated on the content itself
Min(S) == CHOOSE x \in S : \A y \in S : x <= y
Max(S) == CHOOSE x \in S : \A y \in S : x >= y

RECURSIVE TrimLeft(_)
TrimLeft(s) == IF s # <<>> /\ Head(s) = "s" THEN TrimLeft(Tail(s)) ELSE s
RECURSIVE TrimRight(_)
TrimRight(s) ==
    IF s # <<>> /\ s[Len(s)] = "s" THEN TrimRight(SubSeq(s, 1, Len(s) - 1)) ELSE s
Trim(s) == TrimRight(TrimLeft(s))

\* the opening fences (```json) that a later ``` closes
ClosedFences(s) ==
    {i \in 1..Len(s) : /\ s[i] = "T" /\ i + 1 <= Len(s) /\ s[i + 1] = "J"
                       /\ \E t \in (i + 2)..Len(s) : s[t] = "T"}
HasFencedBlock(s) == ClosedFences(s) # {}
\* the text between the first such fence and the next ```, whitespace trimmed
FencedText(s) ==
    LET i == Min(ClosedFences(s))
        t == Min({u \in (i + 2)..Len(s) : s[u] = "T"})
    IN  Trim(SubSeq(s, i + 2, t - 1))

Opens(s) == {i \in 1..Len(s) : s[i] = "{"}
Closes(s) == {i \in 1..Len(s) : s[i] = "}"}

\* the closing brace matching the opening brace at i (0 when there is none)
RECURSIVE MatchingClose(_, _, _)
MatchingClose(s, k, depth) ==
    IF k > Len(s) THEN 0
    ELSE IF s[k] = "{" THEN MatchingClose(s, k + 1, depth + 1)
    ELSE IF s[k] = "}"
         THEN IF depth = 1 THEN k ELSE MatchingClose(s, k + 1, depth - 1)
    ELSE MatchingClose(s, k + 1, depth)

HasBalancedObject(s) ==
    Opens(s) # {} /\ MatchingClose(s, Min(Opens(s)), 0) # 0
BalancedText(s) ==
    SubSeq(s, Min(Opens(s)), MatchingClose(s, Min(Opens(s)), 0))

HasBraceSpan(s) == \E o \in Opens(s) : \E c \in Closes(s) : o < c
BraceSpanText(s) == SubSeq(s, Min(Opens(s)), Max(Closes(s)))

\* C8 as stated: the text parsed is the content between the json fences when
\* there is a fenced block, otherwise the first brace-delimited object, from
\* the first opening brace to its matching closing brace; with no fence and no
\* brace, parsing fails.
C8_AsStated ==
    ppc # "match" =>
        IF HasFencedBlock(content) THEN extracted = FencedText(content)
        ELSE IF HasBalancedObject(content)
             THEN extracted = BalancedText(content)
        ELSE Opens(content) = {}
                => (extracted = <<>> /\ (ppc = "done" => ~parsed.ok))

\* C8, amended: the text parsed is the content between the first json fence
\* and the next fence (surrounding whitespace left out) when there is a fenced
\* block; otherwise it is the text from the first opening brace to the last
\* closing brace of the content; when neither exists the text is empty and
\* parsing fails.
C8_Extraction ==
    ppc # "match" =>
        IF HasFencedBlock(content) THEN extracted = FencedText(content)
        ELSE IF HasBraceSpan(content)
             THEN extracted = BraceSpanText(content)
        ELSE extracted = <<>> /\ (ppc = "done" => ~parsed.ok)

\* two objects in the content: the text parsed runs to the last closing brace
\* and does not parse
C8_Witness ==
    /\ ppc = "done"
    /\ ~HasFencedBlock(content)
    /\ HasBalancedObject(content)
    /\ JSONParse(BalancedText(content)).ok
    /\ extracted = content
    /\ extracted # BalancedText(content)
    /\ ~parsed.ok

\* ---- useDebounce
InvokedTimers == {invoked[k].timer : k \in 1..Len(invoked)}

\* C10: at most one timer is pending, and it is the one the last call set;
\* fn is invoked at most once per call, with that call's arguments, no sooner
\* than the delay after the call and only if no later call was made before the
\* invocation; a timer the unmount cleanup cleared never invokes fn.
C10_Debounce ==
    /\ Cardinality(pending) <= 1
    /\ \A t \in pending :
         /\ calls # <<>>
         /\ t.id = calls[Len(calls)].timer
         /\ t.args = calls[Len(calls)].args
    /\ \A k \in 1..Len(invoked) :
         \E c \in 1..Len(calls) :
            /\ calls[c].timer = invoked[k].timer
            /\ calls[c].args = invoked[k].args
            /\ invoked[k].at >= calls[c].at + delay
            /\ \A j \in (c + 1)..Len(calls) :
                 /\ calls[j].at >= invoked[k].at
                 /\ calls[j].at >= calls[c].at + delay
    /\ \A k, l \in 1..Len(invoked) : invoked[k].timer = invoked[l].timer => k = l
    /\ InvokedTimers \cap clearedAtUnmount = {}

\* the first call was superseded, the second invoked fn with its own
\* arguments, the third was pending at the unmount and never ran
C10_Witness ==
    /\ Len(calls) = 3 /\ delay > 0
    /\ calls[1].args # calls[2].args
    /\ calls[2].at < calls[1].at + delay
    /\ Len(invoked) = 1
    /\ invoked[1].timer = 2 /\ invoked[1].args = calls[2].args
    /\ clearedAtUnmount = {3}
    /\ now > calls[3].at + delay

====
